---------------------------- MODULE Spec2Model ----------------------------
(***************************************************************************)
(* A model of decky_plugin_installer.py: the DeckyClient transport         *)
(* session (token fetch, handshake, send, recv, close) and the three       *)
(* workflows built on it (run_installer, configure_store_url,              *)
(* get_store_url).                                                         *)
(*                                                                         *)
(* Spec      the workflows, one action per step of the coroutine; the      *)
(*           client's awaits are taken with every outcome the library      *)
(*           calls can produce (a value, an exception).                    *)
(* SpecWire  one connection at byte level: connect()'s header loop and     *)
(*           recv()'s frame decoder reading the server's byte stream.      *)
(* SpecCodec send()'s frame encoder followed by recv()'s frame decoder.    *)
(***************************************************************************)
EXTENDS Integers, Sequences, FiniteSets, TLC

(***************************************************************************)
(* Bounds of the model.                                                    *)
(***************************************************************************)
\* Workflow invocations in one behaviour.
MaxRuns == 2
\* Messages one install run receives before the model stops the server.
MaxRecv == 3

(***************************************************************************)
(* Message types, decky_plugin_installer.py lines 12-15.                   *)
(***************************************************************************)
CALL == 0
REPLY == 1
ERROR == -1
EVENT == 3

DEFAULT_STORE_URL == "https://plugins.deckbrew.xyz/plugins"

\* Python's None, as msg.get() returns it for an absent key.
NoneV == "None"

Flows == {"install", "configure", "get"}

(***************************************************************************)
(* Python string order on sequences of code points (str.__lt__).           *)
(***************************************************************************)
RECURSIVE LexLess(_, _)
LexLess(a, b) ==
    IF b = <<>> THEN FALSE
    ELSE IF a = <<>> THEN TRUE
    ELSE IF Head(a) # Head(b) THEN Head(a) < Head(b)
    ELSE LexLess(Tail(a), Tail(b))


(***************************************************************************)
(* The plugin store (lines 171-188).  A record's absent, null and empty    *)
(* fields are all written as the empty value, <<>> or "": the code reads   *)
(* every one of them through `x.get(k) or default`, which cannot tell them *)
(* apart.  Version names are sequences of code points, compared as Python  *)
(* compares str.                                                           *)
(***************************************************************************)
V_dev == <<100, 101, 118>>                \* "dev"
V_1_0_0 == <<49, 46, 48, 46, 48>>         \* "1.0.0"
V_1_9_0 == <<49, 46, 57, 46, 48>>         \* "1.9.0"
V_1_10_0 == <<49, 46, 49, 48, 46, 48>>    \* "1.10.0"

Ver(n, a, h) == [name |-> n, artifact |-> a, hash |-> h]
Plugin(i, n, vs) == [id |-> i, name |-> n, versions |-> vs]
\* A record's id as the store gives it: a number, a numeric string, or
\* something int() raises on (null, absent, "abc").
IdInt(v) == [form |-> "int", v |-> v]
IdStr(v) == [form |-> "str", v |-> v]
IdBad == [form |-> "bad", v |-> 0]

\* --target-id's default, line 305.
DefaultTargetId == 42

Catalogs ==
    { <<>>,
      <<Plugin(IdInt(7), "q", <<Ver(V_dev, "http://x/q.zip", "")>>)>>,
      <<Plugin(IdInt(7), "q", <<Ver(V_dev, "http://x/q.zip", "")>>),
        Plugin(IdStr(42), "",
               <<Ver(V_1_0_0, "http://x/100.zip", "h100"),
                 Ver(V_1_10_0, "http://x/1100.zip", "h1100"),
                 Ver(V_1_9_0, "http://x/190.zip", "")>>)>>,
      <<Plugin(IdInt(42), "p", <<>>)>>,
      <<Plugin(IdInt(42), "p", <<Ver(V_1_0_0, "http://x/100.zip", "h"),
                                 Ver(V_1_9_0, "", "h")>>)>>,
      <<Plugin(IdBad, "b", <<>>),
        Plugin(IdInt(42), "p", <<Ver(V_dev, "http://x/a.zip", "abc")>>)>>,
      <<Plugin(IdInt(42), "p", <<Ver(<<>>, "http://x/a.zip", "abc")>>),
        Plugin(IdBad, "b", <<>>)>>,
      <<Plugin(IdInt(42), "p", <<Ver(V_dev, "http://x/a.zip", "abc"),
                                 Ver(V_dev, "", "abc")>>)>> }

\* next((p for p in plugins if int(p.get("id")) == int(target_id)), None),
\* line 174: the records are tried in order and the scan stops at the first
\* match; int() raising on a record reached before it ends the lookup.
RECURSIVE FindTarget(_, _)
FindTarget(plugins, target_id) ==
    IF plugins = <<>> THEN [k |-> "none"]
    ELSE IF Head(plugins).id.form = "bad" THEN [k |-> "raise"]
    ELSE IF Head(plugins).id.v = target_id THEN [k |-> "found", p |-> Head(plugins)]
    ELSE FindTarget(Tail(plugins), target_id)

\* The sort key of line 183: v.get("name") or "".
VersionKey(v) == v.name

\* sorted(versions, key=...), line 183: a stable sort, here by insertion.
RECURSIVE InsertSorted(_, _)
InsertSorted(sorted, v) ==
    IF sorted = <<>> THEN <<v>>
    ELSE IF LexLess(VersionKey(v), VersionKey(Head(sorted)))
         THEN <<v>> \o sorted
         ELSE <<Head(sorted)>> \o InsertSorted(Tail(sorted), v)

RECURSIVE SortedVersions(_)
SortedVersions(versions) ==
    IF versions = <<>> THEN <<>>
    ELSE InsertSorted(SortedVersions(SubSeq(versions, 1, Len(versions) - 1)),
                      versions[Len(versions)])

\* A variant of Latest that takes the first element of the sorted list.
LatestTakesFirst(versions) == SortedVersions(versions)[1]

\* sorted(...)[-1], line 183.
Latest(versions) == SortedVersions(versions)[Len(versions)]

\* Lines 178 and 184: the fall-backs of the plugin and version names.
PluginName(target, target_id) ==
    IF target.name # "" THEN target.name ELSE "plugin-" \o ToString(target_id)
VersionName(latest) == IF latest.name # <<>> THEN latest.name ELSE V_dev

\* A variant of CatalogLookup without the artifact check of lines 187-188.
CatalogLookupNoArtifactCheck(plugins, target_id) ==
    LET f == FindTarget(plugins, target_id) IN
    IF f.k = "raise" THEN [k |-> "fail", reason |-> "CatalogFetchFailed"]
    ELSE IF f.k = "none" THEN [k |-> "fail", reason |-> "PluginNotFound"]
    ELSE IF f.p.versions = <<>> THEN [k |-> "fail", reason |-> "NoVersionsAvailable"]
    ELSE LET latest == Latest(f.p.versions) IN
         [k |-> "ok",
          args |-> <<latest.artifact, PluginName(f.p, target_id),
                     VersionName(latest), latest.hash, 0>>]

\* Lines 174-192: the lookup's result: a failure reason, or the args of the
\* install Call.
CatalogLookup(plugins, target_id) ==
    LET f == FindTarget(plugins, target_id) IN
    IF f.k = "raise" THEN [k |-> "fail", reason |-> "CatalogFetchFailed"]
    ELSE IF f.k = "none" THEN [k |-> "fail", reason |-> "PluginNotFound"]
    ELSE IF f.p.versions = <<>> THEN [k |-> "fail", reason |-> "NoVersionsAvailable"]
    ELSE LET latest == Latest(f.p.versions) IN
         IF latest.artifact = "" THEN [k |-> "fail", reason |-> "MissingArtifact"]
         ELSE [k |-> "ok",
               args |-> <<latest.artifact, PluginName(f.p, target_id),
                          VersionName(latest), latest.hash, 0>>]

(***************************************************************************)
(* What one recv() gives its caller (lines 111-137): None, an exception    *)
(* out of json.loads, or the parsed JSON value.  A value is a JSON object  *)
(* read with msg.get, or some other JSON value, on which msg.get raises.   *)
(* `type` 7 stands for any type code other than the four, absent included. *)
(* `args` is absent, null or a list.                                       *)
(***************************************************************************)
PROMPT_EVENT == "loader/add_plugin_install_prompt"
FINISH_EVENT == "loader/plugin_download_finish"

ArgsAbsent == [kind |-> "absent", items |-> <<>>]
ArgsNull == [kind |-> "null", items |-> <<>>]
ArgsList(items) == [kind |-> "list", items |-> items]

Msg(t, e, a, r, er) ==
    [k |-> "msg", type |-> t, event |-> e, args |-> a, result |-> r, error |-> er]
RecvNone == [k |-> "none", type |-> 7, event |-> NoneV, args |-> ArgsAbsent,
             result |-> NoneV, error |-> NoneV]
RecvRaise == [k |-> "raise", type |-> 7, event |-> NoneV, args |-> ArgsAbsent,
              result |-> NoneV, error |-> NoneV]
NonObject == [k |-> "nonobject", type |-> 7, event |-> NoneV, args |-> ArgsAbsent,
              result |-> NoneV, error |-> NoneV]

Prompt(items) == Msg(EVENT, PROMPT_EVENT, ArgsList(items), NoneV, NoneV)
FinishMsg == Msg(EVENT, FINISH_EVENT, ArgsList(<<>>), NoneV, NoneV)
ReplyMsg == Msg(REPLY, NoneV, ArgsAbsent, "URL", NoneV)
ErrorMsg == Msg(ERROR, NoneV, ArgsAbsent, NoneV, "denied")

\* The messages the server may send in the model.
Messages ==
    { Prompt(<<"a", "b", "r1">>),
      Prompt(<<"a", "b", "r2", "c">>),
      Prompt(<<"a", "b">>),
      Prompt(<<>>),
      Msg(EVENT, PROMPT_EVENT, ArgsAbsent, NoneV, NoneV),
      Msg(EVENT, PROMPT_EVENT, ArgsNull, NoneV, NoneV),
      FinishMsg,
      Msg(EVENT, "loader/other", ArgsList(<<"a", "b", "r3">>), NoneV, NoneV),
      Msg(REPLY, PROMPT_EVENT, ArgsList(<<"a", "b", "r4">>), NoneV, NoneV),
      ReplyMsg,
      ErrorMsg,
      Msg(7, FINISH_EVENT, ArgsAbsent, NoneV, NoneV),
      NonObject }

RecvOutcomes == Messages \cup {RecvNone, RecvRaise}

\* A variant of GetArgs without the default: msg.get("args").
GetArgsNoDefault(msg) == IF msg.args.kind = "absent" THEN ArgsNull ELSE msg.args

\* msg.get("args", []), line 203.
GetArgs(msg) == IF msg.args.kind = "absent" THEN ArgsList(<<>>) ELSE msg.args

\* The least number of args of a prompt that is answered, line 204.
MinPromptArgs == 3

\* A variant of RequestId that takes the prompt's first arg.
RequestIdFirstArg(m_args) == m_args[1]

\* request_id = m_args[2], line 207.
RequestId(m_args) == m_args[3]

\* A variant of InstallBranch in which a server Error raises, as it does in
\* configure_store_url.
InstallBranchErrorFatal(msg) ==
    IF msg.k = "none" THEN "closed"
    ELSE IF msg.k = "raise" THEN "raise_protocol"
    ELSE IF msg.k = "nonobject" THEN "raise_badmsg"
    ELSE IF msg.type = EVENT /\ msg.event = PROMPT_EVENT
         THEN IF GetArgs(msg).kind = "null" THEN "raise_badmsg"
              ELSE IF Len(GetArgs(msg).items) < MinPromptArgs
                   THEN "invalid_prompt"
                   ELSE "confirm"
    ELSE IF msg.type = EVENT /\ msg.event = FINISH_EVENT THEN "finish"
    ELSE IF msg.type = REPLY THEN "reply"
    ELSE IF msg.type = ERROR THEN "raise_server"
    ELSE "ignored"

(***************************************************************************)
(* The branch one iteration of run_installer's loop takes (lines 196-221). *)
(***************************************************************************)
InstallBranch(msg) ==
    IF msg.k = "none" THEN "closed"                              \* 196-198
    ELSE IF msg.k = "raise" THEN "raise_protocol"                \* 195, 223
    ELSE IF msg.k = "nonobject" THEN "raise_badmsg"              \* 200
    ELSE IF msg.type = EVENT /\ msg.event = PROMPT_EVENT         \* 202
         THEN IF GetArgs(msg).kind = "null" THEN "raise_badmsg"  \* 204
              ELSE IF Len(GetArgs(msg).items) < MinPromptArgs
                   THEN "invalid_prompt"                         \* 204-206
                   ELSE "confirm"                                \* 207-210
    ELSE IF msg.type = EVENT /\ msg.event = FINISH_EVENT THEN "finish"   \* 212
    ELSE IF msg.type = REPLY THEN "reply"                        \* 217
    ELSE IF msg.type = ERROR THEN "error"                        \* 220
    ELSE "ignored"

(***************************************************************************)
(* The branch configure_store_url takes on its one message (248-257).      *)
(***************************************************************************)
ConfigureBranch(msg) ==
    IF msg.k = "none" THEN "raise_closed"
    ELSE IF msg.k = "raise" THEN "raise_protocol"
    ELSE IF msg.k = "nonobject" THEN "raise_badmsg"
    ELSE IF msg.type = REPLY THEN "reply"
    ELSE IF msg.type = ERROR THEN "raise_server"
    ELSE "fallthrough"

(***************************************************************************)
(* The branch get_store_url takes on its one message (279-292).            *)
(***************************************************************************)
GetBranch(msg) ==
    IF msg.k = "none" THEN "raise_closed"
    ELSE IF msg.k = "raise" THEN "raise_protocol"
    ELSE IF msg.k = "nonobject" THEN "raise_badmsg"
    ELSE IF msg.type = REPLY THEN "reply"
    ELSE IF msg.type = ERROR THEN "raise_server"
    ELSE "raise_unexpected"

\* The exception a raising branch leaves.
BranchReason(b) ==
    CASE b = "raise_closed" -> "ConnectionClosed"
      [] b = "raise_protocol" -> "ProtocolViolation"
      [] b = "raise_badmsg" -> "BadMessage"
      [] b = "raise_server" -> "ServerReportedError"
      [] b = "raise_unexpected" -> "UnexpectedResponseType"
      [] OTHER -> NoneV

IsRaise(b) == BranchReason(b) # NoneV

\* A variant of NextMsgId that assigns 1 instead of adding it.
NextMsgIdAssigns(id) == 1

(***************************************************************************)
(* DeckyClient.send, lines 79-86: the id is incremented, then the envelope *)
(* is built with it.                                                       *)
(***************************************************************************)
NextMsgId(id) == id + 1

Envelope(msg_type, id, method, args) ==
    [type |-> msg_type, id |-> id, route |-> method, args |-> args]

(***************************************************************************)
(* Bytes.                                                                  *)
(***************************************************************************)
\* b ^ m on two bytes (lines 105, 133, 149).
RECURSIVE BitXor(_, _)
BitXor(a, b) ==
    IF a = 0 THEN b
    ELSE IF b = 0 THEN a
    ELSE ((a + b) % 2) + 2 * BitXor(a \div 2, b \div 2)

\* struct.unpack("!H") and ("!Q"), lines 122, 125: big-endian, unsigned.
RECURSIVE BigEndian(_)
BigEndian(bytes) ==
    IF bytes = <<>> THEN 0
    ELSE 256 * BigEndian(SubSeq(bytes, 1, Len(bytes) - 1)) + bytes[Len(bytes)]

\* bytes(b ^ mask[i % 4] for i, b in enumerate(data)), lines 105, 133, 149.
XorMask(data, m) == [i \in 1..Len(data) |-> BitXor(data[i], m[((i - 1) % 4) + 1])]

\* sub in s, for bytes (lines 65, 71).
Contains(sub, s) ==
    \E i \in 0..(Len(s) - Len(sub)) : SubSeq(s, i + 1, i + Len(sub)) = sub

IsPrefix(a, s) == Len(a) <= Len(s) /\ SubSeq(s, 1, Len(a)) = a

CRLFCRLF == <<13, 10, 13, 10>>                       \* b"\r\n\r\n", line 65
\* b"101 Switching Protocols", line 71
SWITCHING == <<49, 48, 49, 32, 83, 119, 105, 116, 99, 104, 105, 110, 103, 32,
               80, 114, 111, 116, 111, 99, 111, 108, 115>>

\* The size of one read of the header loop, line 66.
ReadSize == 1024

(***************************************************************************)
(* The server's answer to the handshake request.                           *)
(***************************************************************************)
\* "HTTP/1.1 101 Switching Protocols\r\n\r\n"
H101 == <<72, 84, 84, 80, 47, 49, 46, 49, 32>> \o SWITCHING \o CRLFCRLF
\* "HTTP/1.1 403 Forbidden\r\n\r\n"
H403 == <<72, 84, 84, 80, 47, 49, 46, 49, 32, 52, 48, 51, 32, 70, 111, 114, 98,
          105, 100, 100, 101, 110>> \o CRLFCRLF

\* What header_data can hold when the header loop of lines 65-69 ends: the
\* whole response, a response whose bytes past the terminator came with the
\* same read, or, after an empty read, a response cut short.
HeaderReads ==
    { H101,
      H403,
      H101 \o <<129, 2, 123, 125>>,
      H403 \o SWITCHING,
      SubSeq(H101, 1, Len(H101) - 1),
      <<>> }

(***************************************************************************)
(* The workflows.                                                          *)
(***************************************************************************)
VARIABLES
    run,          \* workflow invocations started so far
    flow,         \* the workflow this invocation runs
    pc,           \* where the coroutine stands
    catalog,      \* the store's plugin list, once fetched (plugins, line 173)
    msg_id,       \* DeckyClient.msg_id
    writer,       \* DeckyClient.writer is set
    sent,         \* the envelopes send() wrote on this connection, in order
    recvd,        \* what each recv() of this run returned, in order
    success,      \* run_installer's success flag
    error,        \* the exception caught (run_installer) or in flight
    result,       \* get_store_url's return value
    closeCalls,   \* calls of DeckyClient.close() in this run
    closeFrames,  \* Close frames close() wrote
    streamClosed, \* writer.close() was called
    closeRaised,  \* close() itself raised (out of wait_closed)
    closeWriteFailed, \* the Close frame's write or drain raised (swallowed)
    tokenFetches, \* calls of get_token() in this run
    connects,     \* calls of connect() in this run
    outcome,      \* what the caller sees: "none", "Succeeded", "Failed"
    reason        \* the failure's reason

flowVars == <<run, flow, pc, catalog, msg_id, writer, sent, recvd, success, error,
              result, closeCalls, closeFrames, streamClosed, closeRaised, closeWriteFailed,
              tokenFetches, connects, outcome, reason>>

\* One connection at byte level (SpecWire).
VARIABLES
    stream,       \* the server's bytes the client has not read yet
    header_data,  \* connect()'s header_data
    wpc,          \* "off", "handshake", "connected", "failed", "ended"
    lost,         \* the connection was lost with an error
    results       \* what each recv() read and returned, in order

wireVars == <<stream, header_data, wpc, lost, results>>

\* One frame through send()'s encoder and recv()'s decoder (SpecCodec).
VARIABLES
    payload,      \* the payload handed to the encoder
    mask,         \* the 4 mask bytes os.urandom gave
    frame,        \* the encoded frame
    decoded,      \* what the decoder made of the frame
    cpc           \* "off", "ready", "encoded", "decoded"

codecVars == <<payload, mask, frame, decoded, cpc>>

\* The catalog lookup of lines 174-192 on one version list (SpecLookup).
VARIABLES
    versions,     \* the target's version list as the store gave it
    lookup,       \* the lookup's result: a failure, or the install Call's args
    lpc           \* "off", "ready", "done"

lookupVars == <<versions, lookup, lpc>>

vars == <<flowVars, wireVars, codecVars, lookupVars>>

WireOff ==
    /\ stream = <<>>
    /\ header_data = <<>>
    /\ wpc = "off"
    /\ lost = FALSE
    /\ results = <<>>

CodecOff ==
    /\ payload = <<>>
    /\ mask = <<>>
    /\ frame = <<>>
    /\ decoded = <<>>
    /\ cpc = "off"

LookupOff ==
    /\ versions = <<>>
    /\ lookup = <<>>
    /\ lpc = "off"

\* DeckyClient.__init__, line 36: self.msg_id = 0.
InitialMsgId == 0

FlowInit ==
    /\ run = 0
    /\ flow = "install"
    /\ pc = "idle"
    /\ catalog = <<>>
    /\ msg_id = InitialMsgId
    /\ writer = FALSE
    /\ sent = <<>>
    /\ recvd = <<>>
    /\ success = FALSE
    /\ error = NoneV
    /\ result = NoneV
    /\ closeCalls = 0
    /\ closeFrames = 0
    /\ streamClosed = FALSE
    /\ closeRaised = FALSE
    /\ closeWriteFailed = FALSE
    /\ tokenFetches = 0
    /\ connects = 0
    /\ outcome = "none"
    /\ reason = NoneV

Init == FlowInit /\ WireOff /\ CodecOff /\ LookupOff

\* Lines 313-324 choose the workflow; each begins with client = DeckyClient()
\* (lines 162-164, 237, 268): a fresh session, success False, error None.
StartRun(f) ==
    /\ pc \in {"idle", "done"}
    /\ run < MaxRuns
    /\ run' = run + 1
    /\ flow' = f
    /\ pc' = "get_token"
    /\ catalog' = <<>>
    /\ msg_id' = InitialMsgId
    /\ writer' = FALSE
    /\ sent' = <<>>
    /\ recvd' = <<>>
    /\ success' = FALSE
    /\ error' = NoneV
    /\ result' = NoneV
    /\ closeCalls' = 0
    /\ closeFrames' = 0
    /\ streamClosed' = FALSE
    /\ closeRaised' = FALSE
    /\ closeWriteFailed' = FALSE
    /\ tokenFetches' = 0
    /\ connects' = 0
    /\ outcome' = "none"
    /\ reason' = NoneV
    /\ UNCHANGED <<wireVars, codecVars, lookupVars>>

\* A variant of AfterRaise in which the handler returns past the cleanup.
AfterRaiseSkipsClose == "report"

\* Where an exception raised inside the try block leaves the coroutine: the
\* except clause records or re-raises it and the finally clause runs
\* (lines 223-227, 259-263, 294-298).
AfterRaise == "close"

\* The step after a successful handshake (lines 170, 243, 274).
AfterConnect(f) == IF f = "install" THEN "catalog" ELSE "send_call"

\* get_token(), lines 38-43, called at 167, 240, 271: urlopen returns the
\* token or raises.
GetToken ==
    /\ pc = "get_token"
    /\ tokenFetches' = tokenFetches + 1
    /\ \E ok \in BOOLEAN :
         IF ok THEN pc' = "connect" /\ error' = error
         ELSE pc' = AfterRaise /\ error' = "TokenFetchFailed"
    /\ UNCHANGED <<run, flow, catalog, msg_id, writer, sent, recvd, success,
                   result, closeCalls, closeFrames, streamClosed, closeRaised, closeWriteFailed,
                   connects, outcome, reason,
                   wireVars, codecVars, lookupVars>>

\* connect(), lines 46-69: open_connection raises (writer stays unset), or
\* the request is written and the header loop runs until header_data holds
\* the terminator or a read returns nothing.  SpecWire has the loop's reads.
Connect ==
    /\ pc = "connect"
    /\ connects' = connects + 1
    /\ \/ /\ writer' = FALSE
          /\ pc' = AfterRaise
          /\ error' = "ConnectFailed"
          /\ header_data' = header_data
       \/ /\ writer' = TRUE
          /\ pc' = "handshake"
          /\ error' = error
          /\ header_data' \in HeaderReads
    /\ UNCHANGED <<run, flow, catalog, msg_id, sent, recvd, success, result,
                   closeCalls, closeFrames, streamClosed, closeRaised, closeWriteFailed,
                   tokenFetches, outcome, reason,
                   stream, wpc, lost, results, codecVars, lookupVars>>

\* A variant of HandshakeOk that does not look for the 101 line.
HandshakeOkAnyStatus(data) == Contains(CRLFCRLF, data)

\* Lines 65-72: connect() returns when the loop ended on the terminator
\* (and not on an empty read) and header_data holds the 101 line.
HandshakeOk(data) == Contains(CRLFCRLF, data) /\ Contains(SWITCHING, data)

\* The end of connect(), lines 67-72: it raises or returns; header_data is
\* its local.
HandshakeCheck ==
    /\ pc = "handshake"
    /\ IF HandshakeOk(header_data)
       THEN pc' = AfterConnect(flow) /\ error' = error
       ELSE pc' = AfterRaise /\ error' = "HandshakeFailed"
    /\ header_data' = <<>>
    /\ UNCHANGED <<run, flow, catalog, msg_id, writer, sent, recvd, success, result,
                   closeCalls, closeFrames, streamClosed, closeRaised, closeWriteFailed,
                   tokenFetches, connects, outcome, reason,
                   stream, wpc, lost, results, codecVars, lookupVars>>

\* Lines 171-188: the store is fetched (urlopen or json.loads may raise) and
\* the target looked up.
FetchCatalog ==
    /\ pc = "catalog"
    /\ \/ /\ pc' = AfterRaise
          /\ error' = "CatalogFetchFailed"
          /\ catalog' = catalog
       \/ \E c \in Catalogs :
            LET l == CatalogLookup(c, DefaultTargetId) IN
            /\ catalog' = c
            /\ IF l.k = "ok" THEN pc' = "send_call" /\ error' = error
               ELSE pc' = AfterRaise /\ error' = l.reason
    /\ UNCHANGED <<run, flow, msg_id, writer, sent, recvd, success, result,
                   closeCalls, closeFrames, streamClosed, closeRaised, closeWriteFailed,
                   tokenFetches, connects, outcome, reason,
                   wireVars, codecVars, lookupVars>>

\* A variant of FirstCall whose install args begin with the plugin's name.
FirstCallNameFirst(f, c) ==
    CASE f = "install" ->
           LET a == CatalogLookup(c, DefaultTargetId).args IN
           [route |-> "utilities/install_plugin",
            args |-> <<a[2], a[1], a[3], a[4], a[5]>>]
      [] f = "configure" ->
           [route |-> "utilities/settings/set",
            args |-> <<"store_url", "http://store">>]
      [] f = "get" ->
           [route |-> "utilities/settings/get",
            args |-> <<"store_url", DEFAULT_STORE_URL>>]

\* The route and args of the workflow's first Call (lines 191-192, 244, 275).
FirstCall(f, c) ==
    CASE f = "install" ->
           [route |-> "utilities/install_plugin",
            args |-> CatalogLookup(c, DefaultTargetId).args]
      [] f = "configure" ->
           [route |-> "utilities/settings/set",
            args |-> <<"store_url", "http://store">>]
      [] f = "get" ->
           [route |-> "utilities/settings/get",
            args |-> <<"store_url", DEFAULT_STORE_URL>>]

\* send(), lines 77-109: the envelope is written with the incremented id;
\* drain() may then raise (the connection is lost).
SendCall ==
    /\ pc = "send_call"
    /\ msg_id' = NextMsgId(msg_id)
    /\ sent' = Append(sent, Envelope(CALL, msg_id', FirstCall(flow, catalog).route,
                                     FirstCall(flow, catalog).args))
    /\ \E ok \in BOOLEAN :
         IF ok THEN pc' = "recv" /\ error' = error
         ELSE pc' = AfterRaise /\ error' = "SendFailed"
    /\ UNCHANGED <<run, flow, catalog, writer, recvd, success, result,
                   closeCalls, closeFrames, streamClosed, closeRaised, closeWriteFailed,
                   tokenFetches, connects, outcome, reason,
                   wireVars, codecVars, lookupVars>>

\* What the server can make the next recv() return; after MaxRecv messages
\* the model's server ends the stream.
NextRecv == IF Len(recvd) < MaxRecv THEN RecvOutcomes ELSE {RecvNone}

\* The confirmation Call of lines 209-210.
ConfirmCall(msg) ==
    [route |-> "utilities/confirm_plugin_install",
     args |-> <<RequestId(GetArgs(msg).items)>>]

\* One iteration of run_installer's loop, lines 194-221.
RecvInstall ==
    /\ pc = "recv"
    /\ flow = "install"
    /\ \E m \in NextRecv :
         LET b == InstallBranch(m) IN
         /\ recvd' = Append(recvd, m)
         /\ IF b = "confirm"
            THEN /\ msg_id' = NextMsgId(msg_id)
                 /\ sent' = Append(sent, Envelope(CALL, msg_id', ConfirmCall(m).route,
                                                  ConfirmCall(m).args))
                 /\ success' = success
                 /\ \E ok \in BOOLEAN :
                      IF ok THEN pc' = "recv" /\ error' = error
                      ELSE pc' = AfterRaise /\ error' = "SendFailed"
            ELSE /\ UNCHANGED <<msg_id, sent>>
                 /\ success' = IF b = "finish" THEN TRUE ELSE success
                 /\ IF IsRaise(b) THEN pc' = AfterRaise /\ error' = BranchReason(b)
                    ELSE /\ error' = error
                         /\ pc' = IF b \in {"finish", "closed"} THEN "close" ELSE "recv"
    /\ UNCHANGED <<run, flow, catalog, writer, result, closeCalls, closeFrames,
                   streamClosed, closeRaised, closeWriteFailed, tokenFetches, connects, outcome,
                   reason,
                   wireVars, codecVars, lookupVars>>

\* The branch of the settings flow at hand.
SettingBranch(f, msg) == IF f = "configure" THEN ConfigureBranch(msg) ELSE GetBranch(msg)

\* The one receive of configure_store_url (247-257) and get_store_url
\* (278-292).
RecvSetting ==
    /\ pc = "recv"
    /\ flow \in {"configure", "get"}
    /\ \E m \in NextRecv :
         LET b == SettingBranch(flow, m) IN
         /\ recvd' = Append(recvd, m)
         /\ result' = IF b = "reply" /\ flow = "get" THEN m.result ELSE result
         /\ IF IsRaise(b) THEN pc' = AfterRaise /\ error' = BranchReason(b)
            ELSE pc' = "close" /\ error' = error
    /\ UNCHANGED <<run, flow, catalog, msg_id, writer, sent, success, closeCalls,
                   closeFrames, streamClosed, closeRaised, closeWriteFailed, tokenFetches, connects,
                   outcome, reason,
                   wireVars, codecVars, lookupVars>>

\* A variant of Close whose wait_closed() never returns.
CloseHangs ==
    /\ pc = "close"
    /\ closeCalls' = closeCalls + 1
    /\ IF ~writer
       THEN UNCHANGED <<closeFrames, streamClosed, closeRaised, closeWriteFailed>>
       ELSE /\ closeFrames' = closeFrames + 1
            /\ streamClosed' = TRUE
            /\ closeWriteFailed' \in BOOLEAN
            /\ closeRaised' = FALSE
    /\ pc' = IF writer THEN "wait_closed" ELSE "report"
    /\ UNCHANGED <<run, flow, catalog, msg_id, writer, sent, recvd, success, error,
                   result, tokenFetches, connects, outcome, reason,
                   wireVars, codecVars, lookupVars>>

\* close(), lines 139-157, run by the finally clause: nothing without a
\* writer; else the Close frame is written (a failure of the write or of
\* drain() is swallowed), writer.close() is called and wait_closed() awaited,
\* which raises when the connection was lost with an error.  drain() raises
\* the error the connection was lost with, so whenever the write fails
\* wait_closed() raises as well; it can also raise after a write that went
\* through.
Close ==
    /\ pc = "close"
    /\ closeCalls' = closeCalls + 1
    /\ IF ~writer
       THEN UNCHANGED <<closeFrames, streamClosed, closeRaised, closeWriteFailed>>
       ELSE /\ closeFrames' = closeFrames + 1
            /\ streamClosed' = TRUE
            /\ closeWriteFailed' \in BOOLEAN
            /\ closeRaised' \in (IF closeWriteFailed' THEN {TRUE} ELSE BOOLEAN)
    /\ pc' = "report"
    /\ UNCHANGED <<run, flow, catalog, msg_id, writer, sent, recvd, success, error,
                   result, tokenFetches, connects, outcome, reason,
                   wireVars, codecVars, lookupVars>>

\* A variant of FlowOutcome without the success check of lines 231-232.
FlowOutcomeNoSuccessCheck(f, craised, err, succ) ==
    IF craised THEN [o |-> "Failed", r |-> "CloseFailed"]
    ELSE IF err # NoneV THEN [o |-> "Failed", r |-> err]
    ELSE [o |-> "Succeeded", r |-> NoneV]

\* What the caller gets once the finally clause is over: an exception out of
\* close() itself; else the recorded exception (229-230, or the re-raise of
\* 261, 296); else, in run_installer, the success flag (231-232).
FlowOutcome(f, craised, err, succ) ==
    IF craised THEN [o |-> "Failed", r |-> "CloseFailed"]
    ELSE IF err # NoneV THEN [o |-> "Failed", r |-> err]
    ELSE IF f = "install" /\ ~succ THEN [o |-> "Failed", r |-> "NotCompleted"]
    ELSE [o |-> "Succeeded", r |-> NoneV]

Report ==
    /\ pc = "report"
    /\ outcome' = FlowOutcome(flow, closeRaised, error, success).o
    /\ reason' = FlowOutcome(flow, closeRaised, error, success).r
    /\ pc' = "done"
    /\ UNCHANGED <<run, flow, catalog, msg_id, writer, sent, recvd, success, error,
                   result, closeCalls, closeFrames, streamClosed, closeRaised, closeWriteFailed,
                   tokenFetches, connects,
                   wireVars, codecVars, lookupVars>>

Next ==
    \/ \E f \in Flows : StartRun(f)
    \/ GetToken
    \/ Connect
    \/ HandshakeCheck
    \/ FetchCatalog
    \/ SendCall
    \/ RecvInstall
    \/ RecvSetting
    \/ Close
    \/ Report

Spec == Init /\ [][Next]_vars

\* A step of the coroutine of the run at hand.
ClientStep ==
    \/ GetToken
    \/ Connect
    \/ HandshakeCheck
    \/ FetchCatalog
    \/ SendCall
    \/ RecvInstall
    \/ RecvSetting
    \/ Close
    \/ Report

\* The workflows with the event loop running the coroutine whenever it can
\* take a step: an awaited call returns or raises.  Whether another run is
\* ever started is left open.
LiveSpec == Spec /\ WF_vars(ClientStep)

(***************************************************************************)
(* Properties of the workflows, checked under Spec.                        *)
(***************************************************************************)
Last(s) == s[Len(s)]

\* C1: in each workflow close() has been invoked exactly once on every run
\* that has ended, whatever step failed, never more than once, and the
\* caller sees an outcome only after that call.
C1_CloseOnceBeforeOutcome ==
    /\ closeCalls <= 1
    /\ pc \in {"report", "done"} => closeCalls = 1
    /\ outcome # "none" => closeCalls = 1 /\ pc = "done"
    /\ pc = "done" => outcome \in {"Succeeded", "Failed"}
    /\ pc \in {"get_token", "connect", "handshake", "catalog", "send_call", "recv", "close"}
         => closeCalls = 0 /\ outcome = "none"

C1_Witness ==
    /\ pc = "done"
    /\ flow = "configure"
    /\ outcome = "Failed"
    /\ reason = "ServerReportedError"
    /\ closeCalls = 1
    /\ closeFrames = 1

\* A received prompt event with at least three positional args.
IsWellFormedPrompt(m) ==
    /\ m.k = "msg"
    /\ m.type = EVENT
    /\ m.event = PROMPT_EVENT
    /\ m.args.kind = "list"
    /\ Len(m.args.items) >= 3

IsConfirmCall(e) == e.route = "utilities/confirm_plugin_install"

ConfirmsSent == SelectSeq(sent, IsConfirmCall)
PromptsReceived == SelectSeq(recvd, IsWellFormedPrompt)

\* C2: in the install flow the confirmation Calls sent so far are, in order,
\* one per well-formed prompt received so far, each a Call whose args are
\* [the prompt's third arg], repeated prompts included; a prompt is answered
\* before the next message is received.
C2_ConfirmPerPrompt ==
    flow = "install" =>
        /\ Len(ConfirmsSent) = Len(PromptsReceived)
        /\ \A i \in 1..Len(ConfirmsSent) :
             /\ ConfirmsSent[i].type = CALL
             /\ ConfirmsSent[i].args = <<PromptsReceived[i].args.items[3]>>

C2_Witness ==
    /\ flow = "install"
    /\ Len(ConfirmsSent) = 3
    /\ ConfirmsSent[1].args = <<"r1">>
    /\ ConfirmsSent[2].args = <<"r2">>
    /\ ConfirmsSent[3].args = <<"r1">>

IsFinishEvent(m) == m.k = "msg" /\ m.type = EVENT /\ m.event = FINISH_EVENT

FinishReceived == \E i \in 1..Len(recvd) : IsFinishEvent(recvd[i])

\* C3: an install run ends Succeeded exactly when the finish event was
\* received, and Failed otherwise; nothing is received or sent after the
\* finish event.
C3_SucceededIffFinish ==
    flow = "install" =>
        /\ pc = "done" => (outcome = "Succeeded" <=> FinishReceived)
        /\ pc = "done" => outcome \in {"Succeeded", "Failed"}
        /\ \A i \in 1..Len(recvd) : IsFinishEvent(recvd[i]) => i = Len(recvd)

\* C4: an install run whose stream ended before a finish event was received
\* never succeeds: it ends Failed, with the reason of lines 231-232 unless
\* close() raised.
C4_StreamEndFails ==
    (flow = "install" /\ recvd # <<>> /\ Last(recvd).k = "none") =>
        /\ ~success
        /\ outcome # "Succeeded"
        /\ pc \notin {"recv", "send_call"}
        /\ pc = "done" => outcome = "Failed" /\ reason \in {"NotCompleted", "CloseFailed"}

C4_Witness ==
    /\ flow = "install"
    /\ pc = "done"
    /\ Len(recvd) = 3
    /\ IsWellFormedPrompt(recvd[1])
    /\ recvd[2] = ErrorMsg
    /\ recvd[3].k = "none"
    /\ outcome = "Failed"
    /\ reason = "NotCompleted"

\* The store record the lookup stops at: the first whose id equals the
\* target, no record before it having an id int() rejects.
IsTargetAt(c, i) ==
    /\ i \in 1..Len(c)
    /\ c[i].id.form # "bad"
    /\ c[i].id.v = DefaultTargetId
    /\ \A j \in 1..(i - 1) : c[j].id.form # "bad" /\ c[j].id.v # DefaultTargetId

NoEntry(c) == \A i \in 1..Len(c) : c[i].id.form # "bad" /\ c[i].id.v # DefaultTargetId

\* The version of vs no other version's name is greater than, the last such.
IsSelected(vs, i) ==
    /\ i \in 1..Len(vs)
    /\ \A j \in 1..Len(vs) : ~LexLess(vs[i].name, vs[j].name)
    /\ \A j \in (i + 1)..Len(vs) : vs[j].name # vs[i].name

LookupFailure(c) ==
    IF NoEntry(c) THEN "PluginNotFound"
    ELSE IF \E i \in 1..Len(c) : IsTargetAt(c, i) /\ c[i].versions = <<>>
         THEN "NoVersionsAvailable"
    ELSE IF \E i \in 1..Len(c) :
              /\ IsTargetAt(c, i)
              /\ \E v \in 1..Len(c[i].versions) :
                   IsSelected(c[i].versions, v) /\ c[i].versions[v].artifact = ""
         THEN "MissingArtifact"
    ELSE NoneV

Fetched == flow = "install" /\ pc \notin {"idle", "get_token", "connect", "handshake", "catalog"}
                            /\ error \notin {"TokenFetchFailed", "ConnectFailed",
                                             "HandshakeFailed", "CatalogFetchFailed"}

\* C5: when the catalog lookup of an install run fails (no entry with the
\* target id, no versions, or a selected version without artifact) the run
\* fails with that reason and no Call is written on the connection.
C5_LookupFailureSendsNothing ==
    (Fetched /\ LookupFailure(catalog) # NoneV) =>
        /\ sent = <<>>
        /\ msg_id = 0
        /\ error = LookupFailure(catalog)
        /\ pc = "done" => outcome = "Failed" /\ reason \in {error, "CloseFailed"}

C5_Witness ==
    /\ Fetched
    /\ pc = "done"
    /\ LookupFailure(catalog) = "MissingArtifact"
    /\ outcome = "Failed"
    /\ reason = "MissingArtifact"
    /\ closeFrames = 1
    /\ sent = <<>>

\* C7: a settings flow sends one Call and receives one message, and ends
\* Succeeded only if that message is a Reply; an Error or the end of the
\* stream ends it Failed.
C7_SettingsOneRoundTrip ==
    (flow \in {"configure", "get"} /\ pc = "done") =>
        /\ Len(sent) <= 1
        /\ Len(recvd) <= 1
        /\ outcome = "Succeeded" =>
             /\ Len(sent) = 1
             /\ Len(recvd) = 1
             /\ recvd[1].k = "msg"
             /\ recvd[1].type = REPLY
        /\ (recvd # <<>> /\ (recvd[1].k = "none" \/ recvd[1].type = ERROR))
             => outcome = "Failed"

\* C9: the k-th Call written on a connection carries id k, the counter
\* equals the number of Calls written, and every run starts from 0.
C9_IdsCountCalls ==
    /\ msg_id = Len(sent)
    /\ \A k \in 1..Len(sent) : sent[k].id = k /\ sent[k].type = CALL
    /\ pc \in {"get_token", "connect", "handshake", "catalog"} => msg_id = 0

C9_Witness ==
    /\ run = 2
    /\ flow = "install"
    /\ Len(sent) = 3
    /\ msg_id = 3

\* C12: close() on a session without a writer writes no frame and closes
\* nothing; on a connected session it attempts exactly one Close frame and
\* the stream is closed whether or not that write went through; a failure of
\* the write does not propagate and the run's outcome is the one the try
\* block's error and the success flag give.
C12_CloseBestEffort ==
    pc \in {"report", "done"} =>
        /\ ~writer => (closeFrames = 0 /\ ~streamClosed /\ ~closeRaised)
        /\ writer => (closeFrames = 1 /\ streamClosed)
        /\ closeWriteFailed =>
             /\ ~closeRaised
             /\ pc = "done" =>
                  /\ outcome = (IF error # NoneV \/ (flow = "install" /\ ~success)
                                THEN "Failed" ELSE "Succeeded")
                  /\ reason # "CloseFailed"

\* A failure of the token fetch, of the connection or of the handshake.
IsConnectFailure(e) == e \in {"TokenFetchFailed", "ConnectFailed", "HandshakeFailed"}

\* C15: connect() returns only when the header bytes it accumulated hold the
\* terminator and `101 Switching Protocols`, and fails when the stream ended
\* before the terminator or the terminator came without the 101 line; a run
\* whose token fetch or handshake failed ends Failed, sends no Call, and
\* fetches a token and opens a connection at most once.
C15_HandshakeFailureTerminal ==
    /\ [](/\ tokenFetches <= 1
          /\ connects <= 1
          /\ IsConnectFailure(error) =>
                /\ sent = <<>>
                /\ pc \in {"close", "report", "done"}
                /\ pc = "done" => outcome = "Failed"
          /\ sent # <<>> => (tokenFetches = 1 /\ connects = 1 /\ writer))
    /\ [][pc = "handshake" =>
            IF Contains(CRLFCRLF, header_data) /\ Contains(SWITCHING, header_data)
            THEN error' = error /\ pc' \in {"catalog", "send_call"}
            ELSE error' = "HandshakeFailed" /\ pc' = "close"]_vars

C15_Witness ==
    /\ pc = "done"
    /\ flow = "get"
    /\ error = "HandshakeFailed"
    /\ tokenFetches = 1
    /\ connects = 1
    /\ writer
    /\ sent = <<>>
    /\ outcome = "Failed"

\* C16: an install run sends at most one install_plugin Call; a run that has
\* sent anything has fetched its token and shaken hands, its first Call is
\* the install_plugin Call, with id 1 and the args [artifact_url,
\* plugin_name, version_name, hash, 0] of the selected version, whose
\* artifact URL is not empty; every later Call is a confirmation.
C16_OneInstallCallFirst ==
    (flow = "install" /\ sent # <<>>) =>
        /\ tokenFetches = 1 /\ connects = 1 /\ writer
        /\ sent[1].type = CALL
        /\ sent[1].id = 1
        /\ sent[1].route = "utilities/install_plugin"
        /\ \E i \in 1..Len(catalog) :
             /\ IsTargetAt(catalog, i)
             /\ \E v \in 1..Len(catalog[i].versions) :
                  LET sel == catalog[i].versions[v] IN
                  /\ IsSelected(catalog[i].versions, v)
                  /\ sel.artifact # ""
                  /\ sent[1].args =
                       << sel.artifact,
                          IF catalog[i].name # "" THEN catalog[i].name ELSE "plugin-42",
                          IF sel.name # <<>> THEN sel.name ELSE V_dev,
                          sel.hash,
                          0 >>
        /\ \A k \in 2..Len(sent) :
             /\ sent[k].route = "utilities/confirm_plugin_install"
             /\ sent[k].id = k

C16_Witness ==
    /\ flow = "install"
    /\ Len(sent) = 3
    /\ sent[1] = Envelope(CALL, 1, "utilities/install_plugin",
                          <<"http://x/190.zip", "plugin-42", V_1_9_0, "", 0>>)
    /\ sent[2].route = "utilities/confirm_plugin_install"
    /\ sent[3].route = "utilities/confirm_plugin_install"

\* C13: in the install loop a received Reply or Error sends no Call, leaves
\* the id counter, the success flag and the recorded error as they were, and
\* leaves the loop receiving: a server Error never ends the run.
C13_ReplyErrorInformational ==
    [][(/\ flow = "install"
        /\ pc = "recv"
        /\ recvd' # recvd
        /\ Last(recvd').k = "msg"
        /\ Last(recvd').type \in {REPLY, ERROR})
       => /\ sent' = sent
          /\ msg_id' = msg_id
          /\ success' = success
          /\ error' = error
          /\ pc' = "recv"
          /\ outcome' = "none"]_vars

C13_Witness ==
    /\ flow = "install"
    /\ pc = "done"
    /\ recvd = <<ErrorMsg, ReplyMsg, FinishMsg>>
    /\ Len(sent) = 1
    /\ outcome = "Succeeded"

\* The prompt events the loop leaves unanswered: args absent, or a list of
\* fewer than three.
IsShortPrompt(m) ==
    /\ m.k = "msg"
    /\ m.type = EVENT
    /\ m.event = PROMPT_EVENT
    /\ m.args.kind \in {"absent", "list"}
    /\ Len(m.args.items) < 3

C20_InstallTerminates ==
    (flow = "install" /\ sent # <<>> /\ pc # "done")
        ~> (/\ flow = "install"
            /\ pc = "done"
            /\ outcome \in {"Succeeded", "Failed"}
            /\ closeCalls = 1
            /\ streamClosed)

C20_Witness ==
    /\ flow = "install"
    /\ pc = "done"
    /\ recvd = <<Prompt(<<"a", "b", "r1">>), Msg(7, FINISH_EVENT, ArgsAbsent, NoneV, NoneV),
                 ErrorMsg, RecvNone>>
    /\ outcome = "Failed"
    /\ closeCalls = 1
    /\ streamClosed

(***************************************************************************)
(* The server's side of the wire: the frames it may write.                 *)
(***************************************************************************)
J_null == <<110, 117, 108, 108>>      \* null
J_object == <<123, 125>>              \* {}
J_list == <<91, 93>>                  \* []
J_open == <<123>>                     \* {  (not JSON)

ServerMask == <<200, 129, 254, 255>>

\* A frame as a server may write it: first byte, length in the 7-bit form
\* (w = 0) or in a 2- or 8-byte extension, the mask if any, the payload.
RECURSIVE Pad(_, _)
Pad(bytes, w) == IF Len(bytes) >= w THEN bytes ELSE Pad(<<0>> \o bytes, w)

ServerFrame(first, w, m, data) ==
    LET mbit == IF m = <<>> THEN 0 ELSE 128
        body == IF m = <<>> THEN data ELSE XorMask(data, m)
    IN  IF w = 0 THEN <<first, mbit + Len(data)>> \o m \o body
        ELSE <<first, mbit + (IF w = 2 THEN 126 ELSE 127)>>
             \o Pad(<<Len(data)>>, w) \o m \o body

\* The start of a frame that declares 64 MiB + 1 payload bytes in the 64-bit
\* form, and the two bytes the server sends of them.
OversizeFrame == <<129, 127, 0, 0, 0, 0, 4, 0, 0, 1>> \o J_object

WireFrames ==
    { OversizeFrame,
      ServerFrame(129, 0, <<>>, J_object),
      ServerFrame(129, 0, <<>>, J_null),
      ServerFrame(129, 0, ServerMask, J_list),
      ServerFrame(129, 2, <<>>, J_object),
      ServerFrame(129, 8, ServerMask, J_object),
      ServerFrame(129, 0, <<>>, J_open),
      ServerFrame(129, 0, <<>>, <<>>),
      ServerFrame(136, 0, <<>>, <<3, 232>>) }

FollowFrames == { ServerFrame(129, 0, <<>>, J_object), ServerFrame(129, 0, <<>>, J_null) }

\* Frames one server stream holds at most.
MaxFrames == 2

RECURSIVE Bodies(_)
Bodies(n) ==
    IF n = 0 THEN {<<>>}
    ELSE IF n = 1 THEN {<<>>} \cup WireFrames
    ELSE Bodies(n - 1) \cup {x \o f : x \in Bodies(n - 1) \ {<<>>}, f \in FollowFrames}

\* What a server writes before it closes: a response header and frames, cut
\* anywhere.
ServerStreams ==
    UNION { { SubSeq(h \o x, 1, n) : n \in 0..Len(h \o x) } :
            h \in {H101, H403}, x \in Bodies(MaxFrames) }

(***************************************************************************)
(* json.loads(payload_raw.decode()), line 135, on the payloads above: the  *)
(* kind of value, or "raise".  The texts the model's streams can hold are  *)
(* null, {} and brackets; any other byte string they give is not JSON.     *)
(***************************************************************************)
RECURSIVE JsonLoads(_)
JsonLoads(p) ==
    IF p = J_null THEN "None"
    ELSE IF p = J_object THEN "object"
    ELSE IF Len(p) >= 2 /\ p[1] = 91 /\ p[Len(p)] = 93
         THEN IF Len(p) = 2 \/ JsonLoads(SubSeq(p, 2, Len(p) - 1)) # "raise"
              THEN "list" ELSE "raise"
    ELSE "raise"

(***************************************************************************)
(* reader.readexactly(n), lines 115-130: n bytes of the stream, or          *)
(* IncompleteReadError when it ends first (what was there is consumed).    *)
(***************************************************************************)
ReadExactly(buf, n) ==
    IF Len(buf) >= n
    THEN [ok |-> TRUE, data |-> SubSeq(buf, 1, n), rest |-> SubSeq(buf, n + 1, Len(buf))]
    ELSE [ok |-> FALSE, data |-> buf, rest |-> <<>>]

\* head[1] & 0x80 and head[1] & 0x7F, lines 117-118.
HasMask(head) == head[2] >= 128
LengthCode(head) == head[2] % 128

\* A variant of ExtBytes that reads a 4-byte extension for code 126.
ExtBytesQuadFor126(code) == IF code = 126 THEN 4 ELSE IF code = 127 THEN 8 ELSE 0

\* The extension bytes recv() reads for a length code, lines 120-125.
ExtBytes(code) == IF code = 126 THEN 2 ELSE IF code = 127 THEN 8 ELSE 0

(***************************************************************************)
(* recv()'s frame decoder, lines 115-133, on the unread stream: whether a  *)
(* whole frame was there, its payload (unmasked), and what is left.        *)
(***************************************************************************)
DecodeFrame(buf) ==
    LET head == ReadExactly(buf, 2) IN
    IF ~head.ok THEN [complete |-> FALSE, payload |-> <<>>, rest |-> <<>>]
    ELSE
    LET code == LengthCode(head.data)
        ext == ReadExactly(head.rest, ExtBytes(code))
    IN
    IF ~ext.ok THEN [complete |-> FALSE, payload |-> <<>>, rest |-> <<>>]
    ELSE
    LET length == IF ExtBytes(code) = 0 THEN code ELSE BigEndian(ext.data)
        mk == ReadExactly(ext.rest, IF HasMask(head.data) THEN 4 ELSE 0)
    IN
    IF ~mk.ok THEN [complete |-> FALSE, payload |-> <<>>, rest |-> <<>>]
    ELSE
    LET raw == ReadExactly(mk.rest, length) IN
    IF ~raw.ok THEN [complete |-> FALSE, payload |-> <<>>, rest |-> <<>>]
    ELSE [complete |-> TRUE,
          payload |-> IF HasMask(head.data) THEN XorMask(raw.data, mk.data)
                      ELSE raw.data,
          rest |-> raw.rest]

\* What recv() returns for a decoded frame, lines 135-137.
RecvReturn(d) ==
    IF ~d.complete THEN "none"
    ELSE IF JsonLoads(d.payload) = "raise" THEN "raise"
    ELSE IF JsonLoads(d.payload) = "None" THEN "none"
    ELSE "value"

(***************************************************************************)
(* One connection at byte level.                                           *)
(***************************************************************************)
WireInit ==
    /\ FlowInit
    /\ CodecOff
    /\ LookupOff
    /\ stream \in ServerStreams
    /\ header_data = <<>>
    /\ wpc = "handshake"
    /\ lost = FALSE
    /\ results = <<>>

\* The sizes reader.read(1024) may return, line 66: whatever part of the
\* unread stream has arrived, at least one byte, at most 1024; nothing once
\* the stream has ended.
ChunkSizes(buf) ==
    IF buf = <<>> THEN {0}
    ELSE 1..(IF Len(buf) < ReadSize THEN Len(buf) ELSE ReadSize)

\* What connect() keeps of the bytes it read past the terminator for the
\* frame decoder (lines 74-75: nothing of header_data is handed on; the
\* StreamReader holds only what read() has not returned yet).
KeptForDecoder(data) == <<>>

\* One iteration of connect()'s header loop, lines 65-69, and, once the
\* terminator is in header_data, the check of lines 71-72.
ReadHeaderChunk ==
    /\ wpc = "handshake"
    /\ IF lost
       THEN /\ wpc' = "failed"
            /\ UNCHANGED <<stream, header_data>>
       ELSE \E n \in ChunkSizes(stream) :
              LET chunk == SubSeq(stream, 1, n)
                  data == header_data \o chunk
              IN  /\ header_data' = data
                  /\ stream' = KeptForDecoder(data) \o SubSeq(stream, n + 1, Len(stream))
                  /\ wpc' = IF chunk = <<>> THEN "failed"
                            ELSE IF ~Contains(CRLFCRLF, data) THEN "handshake"
                            ELSE IF Contains(SWITCHING, data) THEN "connected"
                            ELSE "failed"
    /\ UNCHANGED <<lost, results>>
    /\ UNCHANGED <<flowVars, codecVars, lookupVars>>

\* One recv(), lines 111-137; the caller goes on receiving after a value.
WireRecv ==
    /\ wpc = "connected"
    /\ LET d == IF lost THEN [complete |-> FALSE, payload |-> <<>>, rest |-> stream]
                ELSE DecodeFrame(stream)
           used == SubSeq(stream, 1, Len(stream) - Len(d.rest))
       IN  /\ stream' = d.rest
           /\ results' = Append(results, [ret |-> RecvReturn(d), complete |-> d.complete,
                                          used |-> used, payload |-> d.payload])
           /\ wpc' = IF RecvReturn(d) = "value" THEN "connected" ELSE "ended"
    /\ UNCHANGED <<header_data, lost>>
    /\ UNCHANGED <<flowVars, codecVars, lookupVars>>

\* The connection is lost with an error (a reset): reads raise from then on.
ConnectionLost ==
    /\ wpc \in {"handshake", "connected"}
    /\ ~lost
    /\ lost' = TRUE
    /\ UNCHANGED <<stream, header_data, wpc, results>>
    /\ UNCHANGED <<flowVars, codecVars, lookupVars>>

WireNext ==
    \/ ReadHeaderChunk
    \/ WireRecv
    \/ ConnectionLost

SpecWire == WireInit /\ [][WireNext]_vars

(***************************************************************************)
(* Properties of the connection, checked under SpecWire.                   *)
(***************************************************************************)
\* The bytes of s after the first occurrence of sub; <<>> when there is none.
RECURSIVE After(_, _)
After(sub, s) ==
    IF Len(s) < Len(sub) THEN <<>>
    ELSE IF SubSeq(s, 1, Len(sub)) = sub THEN SubSeq(s, Len(sub) + 1, Len(s))
    ELSE After(sub, Tail(s))

\* The bytes connect() read past the header's terminator.
Residue == After(CRLFCRLF, header_data)

\* C6: the bytes a read of connect() returned after the \r\n\r\n terminator
\* are the first bytes the first recv() decodes: what it consumed begins
\* with them (or is a part of them, when the frame is shorter).
C6_ResidueDecodedFirst ==
    (wpc \in {"connected", "ended"} /\ results # <<>> /\ ~lost /\ Residue # <<>>) =>
        \/ IsPrefix(Residue, results[1].used)
        \/ IsPrefix(results[1].used, Residue)

\* C8: recv() returns None exactly when the stream ended before a whole
\* frame was read; a whole frame gives a value or an exception.
C8_NoneIffIncomplete ==
    \A i \in 1..Len(results) :
        (results[i].ret = "none") <=> ~results[i].complete

\* The payload length a frame's first bytes declare in the 64-bit form; 0 for
\* the other forms, which cannot exceed 65535.
DeclaredLong(bytes) ==
    IF Len(bytes) >= 10 /\ bytes[2] % 128 = 127 THEN BigEndian(SubSeq(bytes, 3, 10))
    ELSE 0

\* C19: a recv() that read a declared payload length above 64 MiB ended with
\* an error, not with None or a value, and read nothing past the length
\* field.
C19_OversizeRejected ==
    \A i \in 1..Len(results) :
        DeclaredLong(results[i].used) > 64 * 1024 * 1024 =>
            /\ results[i].ret = "raise"
            /\ Len(results[i].used) = 10

(***************************************************************************)
(* send()'s frame encoder, lines 87-106.                                   *)
(***************************************************************************)
\* The payload lengths at which the length field widens, lines 93 and 95.
SmallLimit == 126
MediumLimit == 65536

\* struct.pack("!H", n) and struct.pack("!Q", n), lines 97, 100: n in w
\* bytes, big-endian.
RECURSIVE PackBE(_, _)
PackBE(n, w) == IF w = 0 THEN <<>> ELSE PackBE(n \div 256, w - 1) \o <<n % 256>>

\* A variant of LengthField whose first test is length <= 126.
LengthFieldOffByOne(length) ==
    IF length <= SmallLimit THEN <<length + 128>>
    ELSE IF length < MediumLimit THEN <<126 + 128>> \o PackBE(length, 2)
    ELSE <<127 + 128>> \o PackBE(length, 8)

\* Lines 93-100: the second byte (length code | 0x80) and the extension.
LengthField(length) ==
    IF length < SmallLimit THEN <<length + 128>>
    ELSE IF length < MediumLimit THEN <<126 + 128>> \o PackBE(length, 2)
    ELSE <<127 + 128>> \o PackBE(length, 8)

\* A variant of EncodeFrame that writes the payload as it is.
EncodeFramePlainPayload(data, m) == <<129>> \o LengthField(Len(data)) \o m \o data

\* Lines 90-106: FIN and opcode 1, the length field, the mask, the payload
\* XORed with it.
EncodeFrame(data, m) == <<129>> \o LengthField(Len(data)) \o m \o XorMask(data, m)

\* close(), line 145: struct.pack("!H", 1000).
CloseStatus == 1000
ClosePayload == PackBE(CloseStatus, 2)

\* close(), lines 146-150: FIN and opcode 8, 0x80 | len(payload), the mask,
\* the payload XORed with it.
CloseFrame(m) == <<136, 128 + Len(ClosePayload)>> \o m \o XorMask(ClosePayload, m)

\* Payload contents and masks the model tries.
MaxSeed == 2
Masks == { <<0, 0, 0, 0>>, <<255, 255, 255, 255>>, <<18, 52, 86, 120>>, <<1, 128, 7, 254>> }

\* A payload of n bytes.
PayloadOf(n, seed) == [i \in 1..n |-> (seed * 97 + i * 7) % 256]

\* Around every width of the length field, and not multiples of 4.
ShortLengths == {0, 1, 2, 3, 5, SmallLimit - 1, SmallLimit, SmallLimit + 1}
LongLengths == {MediumLimit - 1, MediumLimit}

CodecInit ==
    /\ FlowInit
    /\ WireOff
    /\ LookupOff
    /\ \/ \E n \in ShortLengths, sd \in 0..MaxSeed, m \in Masks :
            payload = PayloadOf(n, sd) /\ mask = m
       \/ \E n \in LongLengths :
            payload = PayloadOf(n, 1) /\ mask = <<18, 52, 86, 120>>
    /\ frame = <<>>
    /\ decoded = <<>>
    /\ cpc = "ready"

\* send() frames the payload, lines 87-108.
Encode ==
    /\ cpc = "ready"
    /\ frame' = EncodeFrame(payload, mask)
    /\ cpc' = "encoded"
    /\ UNCHANGED <<payload, mask, decoded>>
    /\ UNCHANGED <<flowVars, wireVars, lookupVars>>

\* recv()'s decoder reads the frame back, lines 115-133.
Decode ==
    /\ cpc = "encoded"
    /\ decoded' = DecodeFrame(frame)
    /\ cpc' = "decoded"
    /\ UNCHANGED <<payload, mask, frame>>
    /\ UNCHANGED <<flowVars, wireVars, lookupVars>>

\* close() frames the status, lines 145-150, with the mask drawn.
EncodeClose ==
    /\ cpc = "ready"
    /\ payload' = ClosePayload
    /\ frame' = CloseFrame(mask)
    /\ cpc' = "close_encoded"
    /\ UNCHANGED <<mask, decoded>>
    /\ UNCHANGED <<flowVars, wireVars, lookupVars>>

CodecNext ==
    \/ Encode
    \/ Decode
    \/ EncodeClose

SpecCodec == CodecInit /\ [][CodecNext]_vars

\* C10: decoding the masked text frame the encoder made of a payload gives
\* back that payload, at every width of the length field and for lengths
\* that are not multiples of 4, and consumes the whole frame.
C10_RoundTrip ==
    cpc = "decoded" =>
        /\ decoded.complete
        /\ decoded.payload = payload
        /\ decoded.rest = <<>>

C10_Witness ==
    /\ cpc = "decoded"
    /\ Len(payload) = SmallLimit + 1
    /\ Len(frame) = SmallLimit + 9
    /\ decoded.payload = payload

\* C17: the frame the encoder makes of a payload of L bytes has length code
\* L and no extension when L < 126, code 126 and L in 2 big-endian bytes when
\* 126 <= L < 65536, code 127 and L in 8 big-endian bytes when L >= 65536;
\* the decoder reads that extension and then exactly L payload bytes.
C17_LengthFieldWidths ==
    LET L == Len(payload) IN
    /\ cpc \in {"encoded", "decoded"} =>
         IF L < 126
         THEN /\ frame[2] % 128 = L
              /\ Len(frame) = 2 + 4 + L
         ELSE IF L < 65536
         THEN /\ frame[2] % 128 = 126
              /\ 256 * frame[3] + frame[4] = L
              /\ Len(frame) = 2 + 2 + 4 + L
         ELSE /\ frame[2] % 128 = 127
              /\ SubSeq(frame, 3, 6) = <<0, 0, 0, 0>>
              /\ ((256 * frame[7] + frame[8]) * 256 + frame[9]) * 256 + frame[10] = L
              /\ Len(frame) = 2 + 8 + 4 + L
    /\ cpc = "decoded" =>
         /\ decoded.complete
         /\ Len(decoded.payload) = L
         /\ decoded.rest = <<>>
    /\ cpc = "close_encoded" =>
         /\ frame[2] % 128 = 2
         /\ Len(frame) = 2 + 4 + 2

C17_Witness ==
    /\ cpc = "decoded"
    /\ Len(payload) = SmallLimit
    /\ SubSeq(frame, 2, 4) = <<254, 0, 126>>
    /\ Len(decoded.payload) = SmallLimit

\* Where the mask begins in a frame whose payload has L bytes.
MaskOffset(L) == IF L < 126 THEN 2 ELSE IF L < 65536 THEN 4 ELSE 10

\* C18: every frame send() and close() make has the FIN bit and the MASK bit
\* set and a text or close opcode, carries the 4-byte mask after the length
\* field, and after it the payload XORed byte by byte with the mask, the mask
\* cycling every 4 bytes.
C18_FramesMasked ==
    cpc \in {"encoded", "decoded", "close_encoded"} =>
        LET L == Len(payload)
            off == MaskOffset(L)
        IN  /\ frame[1] >= 128
            /\ frame[1] % 16 = (IF cpc = "close_encoded" THEN 8 ELSE 1)
            /\ frame[2] >= 128
            /\ Len(frame) = off + 4 + L
            /\ SubSeq(frame, off + 1, off + 4) = mask
            /\ \A i \in 1..L :
                 frame[off + 4 + i] = BitXor(payload[i], mask[((i - 1) % 4) + 1])

C18_Witness ==
    /\ cpc = "close_encoded"
    /\ mask = <<18, 52, 86, 120>>
    /\ frame = <<136, 130, 18, 52, 86, 120, 17, 220>>

(***************************************************************************)
(* The catalog lookup of run_installer (lines 174-192) as a function of    *)
(* the target's version list: the list is drawn from every sequence of up  *)
(* to MaxVersions entries of a pool, so every order of the pool's names    *)
(* occurs, as do equal names, an empty name and an empty artifact.         *)
(***************************************************************************)
MaxVersions == 3

Ver100 == Ver(V_1_0_0, "http://x/100.zip", "h100")
Ver190 == Ver(V_1_9_0, "http://x/190.zip", "h190")
Ver1100 == Ver(V_1_10_0, "http://x/1100.zip", "h1100")
VersionPool ==
    { Ver100, Ver190, Ver1100,
      Ver(V_1_9_0, "", "h190b"),
      Ver(<<>>, "http://x/n.zip", "") }

VersionLists == UNION { [1..k -> VersionPool] : k \in 0..MaxVersions }

LookupInit ==
    /\ FlowInit
    /\ WireOff
    /\ CodecOff
    /\ versions \in VersionLists
    /\ lookup = <<>>
    /\ lpc = "ready"

\* Lines 174-192 on a store holding the target's record alone.
LookupTarget ==
    /\ lpc = "ready"
    /\ lookup' = CatalogLookup(<<Plugin(IdInt(DefaultTargetId), "p", versions)>>,
                               DefaultTargetId)
    /\ lpc' = "done"
    /\ UNCHANGED <<versions, flowVars, wireVars, codecVars>>

LookupNext == LookupTarget

SpecLookup == LookupInit /\ [][LookupNext]_vars

\* C11: the version the lookup selects is the one whose name is greatest in
\* character-wise string order (the last such in the list), whatever the
\* list's order, and the install Call's args carry that version's artifact,
\* name and hash; of "1.0.0", "1.9.0" and "1.10.0" that is "1.9.0".
C11_LexicographicLatest ==
    (lpc = "done" /\ versions # <<>>) =>
        /\ \E v \in 1..Len(versions) :
             /\ IsSelected(versions, v)
             /\ IF versions[v].artifact = ""
                THEN lookup = [k |-> "fail", reason |-> "MissingArtifact"]
                ELSE /\ lookup.k = "ok"
                     /\ lookup.args[1] = versions[v].artifact
                     /\ lookup.args[3] = VersionName(versions[v])
                     /\ lookup.args[4] = versions[v].hash
        /\ ({versions[v] : v \in 1..Len(versions)} = {Ver100, Ver190, Ver1100})
             => /\ lookup.k = "ok"
                /\ lookup.args = <<"http://x/190.zip", "p", V_1_9_0, "h190", 0>>

C11_Witness ==
    /\ lpc = "done"
    /\ versions = <<Ver190, Ver100, Ver1100>>
    /\ lookup.k = "ok"
    /\ lookup.args[3] = V_1_9_0


=============================================================================
